---------------------------- MODULE Spec2Model ----------------------------
(***************************************************************************)
(* A model of base/openvas_hosts.c: the parser of host specification       *)
(* strings (openvas_hosts_new), the hosts collection with its cursor       *)
(* (openvas_hosts_next, openvas_hosts_shuffle) and the per-host views      *)
(* (openvas_host_resolve).                                                 *)
(*                                                                         *)
(* Strings are sequences of one-character strings.  A struct in_addr is    *)
(* the tuple of its four bytes in memory (network byte order); a uint32_t  *)
(* in host byte order is a pair <<hi, lo>> of 16-bit halves, so that every *)
(* 32-bit operation of the code keeps its width (the model checker's own   *)
(* integers are too narrow for 2^32).                                      *)
(***************************************************************************)
EXTENDS Integers, Sequences, FiniteSets, TLC

(***************************************************************************)
(* Characters and <ctype.h>                                                *)
(***************************************************************************)
DigitChars == <<"0", "1", "2", "3", "4", "5", "6", "7", "8", "9">>

XDigitChars ==
  <<"0", "1", "2", "3", "4", "5", "6", "7", "8", "9", "a", "b", "c", "d", "e", "f">>

LowerChars ==
  {"a", "b", "c", "d", "e", "f", "g", "h", "i", "j", "k", "l", "m",
   "n", "o", "p", "q", "r", "s", "t", "u", "v", "w", "x", "y", "z"}

UpperChars ==
  {"A", "B", "C", "D", "E", "F", "G", "H", "I", "J", "K", "L", "M",
   "N", "O", "P", "Q", "R", "S", "T", "U", "V", "W", "X", "Y", "Z"}

Range(s) == {s[i] : i \in DOMAIN s}

isdigit(c) == c \in Range(DigitChars)

isalnum(c) == isdigit(c) \/ c \in LowerChars \/ c \in UpperChars

\* g_ascii_isspace, as g_strstrip uses it.
g_ascii_isspace(c) == c \in {" ", "\t", "\n", "\r", "\f"}

DigitVal(c) == (CHOOSE i \in DOMAIN DigitChars : DigitChars[i] = c) - 1

\* tolower on the hexadecimal letters, the only ones inet_pton reads.
tolower(c) ==
  CASE c = "A" -> "a" [] c = "B" -> "b" [] c = "C" -> "c"
    [] c = "D" -> "d" [] c = "E" -> "e" [] c = "F" -> "f"
    [] OTHER -> c

isxdigit(c) == tolower(c) \in Range(XDigitChars)

XDigitVal(c) == (CHOOSE i \in DOMAIN XDigitChars : XDigitChars[i] = tolower(c)) - 1

(***************************************************************************)
(* <string.h>, <stdlib.h>, <stdio.h>                                       *)
(***************************************************************************)
\* The terminating null char of a C string.
NUL == "NUL"

\* The char at 1-based position i of a C string, NUL at and past its end.
At(str, i) == IF i \in DOMAIN str THEN str[i] ELSE NUL

\* strchr: the position of the first c in str, 0 (NULL) when there is none.
strchr(str, c) ==
  IF c \in Range(str) THEN CHOOSE i \in DOMAIN str : str[i] = c /\ \A j \in 1..(i - 1) : str[j] # c
  ELSE 0

\* The two strings left once the char at position i is overwritten by NUL.
Before(str, i) == SubSeq(str, 1, i - 1)
After(str, i) == SubSeq(str, i + 1, Len(str))

\* The length of the longest prefix of str made of decimal digits.
RECURSIVE DigitSpan(_)
DigitSpan(str) ==
  IF str # <<>> /\ isdigit(Head(str)) THEN 1 + DigitSpan(Tail(str)) ELSE 0

\* The value of a string of decimal digits.
RECURSIVE DecValue(_)
DecValue(digits) ==
  IF digits = <<>> THEN 0
  ELSE 10 * DecValue(SubSeq(digits, 1, Len(digits) - 1)) + DigitVal(digits[Len(digits)])

\* strtol (str, &p, 10) on a string whose first char is a digit (the callers
\* check isdigit (*str) first): the value of the digit prefix, and the rest
\* of the string, which p points to.
strtol(str) ==
  [val |-> DecValue(SubSeq(str, 1, DigitSpan(str))),
   p |-> SubSeq(str, DigitSpan(str) + 1, Len(str))]

\* atoi on a string that starts with a digit.
atoi(str) == DecValue(SubSeq(str, 1, DigitSpan(str)))

\* The length of the longest prefix of str made of digits and dots: %*[0-9.]
RECURSIVE ScanSetSpan(_)
ScanSetSpan(str) ==
  IF str # <<>> /\ (isdigit(Head(str)) \/ Head(str) = ".")
  THEN 1 + ScanSetSpan(Tail(str)) ELSE 0

\* sscanf (str, "%*[0-9.]/%2u", block): the number of conversions stored (1
\* or 0) and the value stored.  %*[0-9.] needs one char at least, "/" is
\* matched literally, %2u reads at most two chars, digits only.
sscanf_block(str) ==
  LET n == ScanSetSpan(str)
      rest == SubSeq(str, n + 2, Len(str))
      field == SubSeq(rest, 1, IF Len(rest) < 2 THEN Len(rest) ELSE 2)
      d == DigitSpan(field)
  IN  IF n = 0 \/ At(str, n + 1) # "/" \/ d = 0
      THEN [converted |-> 0, block |-> 0]
      ELSE [converted |-> 1, block |-> DecValue(SubSeq(field, 1, d))]

(***************************************************************************)
(* uint32_t in host byte order: <<hi, lo>>, value hi * 2^16 + lo           *)
(***************************************************************************)
Half == 65536

U32(hi, lo) == <<hi, lo>>

U32Zero == <<0, 0>>
U32One == <<0, 1>>
U32Max == <<Half - 1, Half - 1>>

\* x + y modulo 2^32
U32Add(x, y) ==
  LET lo == x[2] + y[2]
  IN  <<(x[1] + y[1] + (lo \div Half)) % Half, lo % Half>>

\* x - y modulo 2^32
U32Sub(x, y) ==
  LET lo == x[2] - y[2]
      borrow == IF lo < 0 THEN 1 ELSE 0
  IN  <<(x[1] - y[1] - borrow + Half) % Half, (lo + Half) % Half>>

\* x + n modulo 2^32 for a small natural number n
U32AddInt(x, n) == U32Add(x, <<n \div Half, n % Half>>)

U32Gt(x, y) == x[1] > y[1] \/ (x[1] = y[1] /\ x[2] > y[2])
U32Leq(x, y) == ~U32Gt(x, y)

RECURSIVE And16(_, _, _)
And16(a, b, n) ==
  IF n = 0 THEN 0 ELSE (a % 2) * (b % 2) + 2 * And16(a \div 2, b \div 2, n - 1)

RECURSIVE Xor16(_, _, _)
Xor16(a, b, n) ==
  IF n = 0 THEN 0 ELSE ((a + b) % 2) + 2 * Xor16(a \div 2, b \div 2, n - 1)

U32And(x, y) == <<And16(x[1], y[1], 16), And16(x[2], y[2], 16)>>
U32Xor(x, y) == <<Xor16(x[1], y[1], 16), Xor16(x[2], y[2], 16)>>

\* The bit pattern of the int 1 << n for n in 0..31.  (1 << 31 does not fit
\* a 32-bit int; the compilers the library is built with give the bit
\* pattern 0x80000000 and wrap the subtraction that follows it.)
Shl1(n) == IF n < 16 THEN <<0, 2 ^ n>> ELSE <<2 ^ (n - 16), 0>>

\* The results of 1 << n on an int: the shift count 32 is the width of the
\* type, for which the hardware either masks the count (1 << 0) or shifts the
\* bit out (0).
ShlOutcomes(n) == IF n \in 0..31 THEN {Shl1(n)} ELSE {U32One, U32Zero}

\* ntohl and htonl: struct in_addr holds the four bytes in network order.
ntohl(s) == <<s[1] * 256 + s[2], s[3] * 256 + s[4]>>
htonl(x) == <<x[1] \div 256, x[1] % 256, x[2] \div 256, x[2] % 256>>

(***************************************************************************)
(* inet_pton                                                               *)
(***************************************************************************)
PtonFail == [ok |-> 0, addr |-> <<>>]

\* inet_pton (AF_INET, src, dst), a scan over src: tmp holds the bytes read so
\* far, its last one being the byte under construction.
RECURSIVE inet_pton4_scan(_, _, _, _)
inet_pton4_scan(src, tmp, saw_digit, octets) ==
  IF src = <<>>
  THEN IF octets < 4 THEN PtonFail ELSE [ok |-> 1, addr |-> tmp]
  ELSE LET ch == Head(src)
           new == tmp[Len(tmp)] * 10 + DigitVal(ch)
       IN  IF isdigit(ch)
           THEN IF saw_digit /\ tmp[Len(tmp)] = 0 THEN PtonFail
                ELSE IF new > 255 THEN PtonFail
                ELSE IF ~saw_digit /\ octets + 1 > 4 THEN PtonFail
                ELSE inet_pton4_scan(Tail(src), [tmp EXCEPT ![Len(tmp)] = new], TRUE,
                                     IF saw_digit THEN octets ELSE octets + 1)
           ELSE IF ch = "." /\ saw_digit
           THEN IF octets = 4 THEN PtonFail
                ELSE inet_pton4_scan(Tail(src), Append(tmp, 0), FALSE, octets)
           ELSE PtonFail

inet_pton4(src) == inet_pton4_scan(src, <<0>>, FALSE, 0)

Zeros(n) == [i \in 1..n |-> 0]

\* The end of inet_pton (AF_INET6): the last group is stored, the groups after
\* "::" are moved to the end of the 16 bytes.
inet_pton6_end(tp, colonp, saw_xdigit, val) ==
  LET tp1 == IF saw_xdigit THEN tp \o <<val \div 256, val % 256>> ELSE tp
      tp2 == IF colonp # -1
             THEN SubSeq(tp1, 1, colonp) \o Zeros(16 - Len(tp1))
                    \o SubSeq(tp1, colonp + 1, Len(tp1))
             ELSE tp1
  IN  IF Len(tp1) > 16 THEN PtonFail
      ELSE IF colonp # -1 /\ Len(tp1) = 16 THEN PtonFail
      ELSE IF Len(tp2) # 16 THEN PtonFail
      ELSE [ok |-> 1, addr |-> tp2]

\* inet_pton (AF_INET6, src, dst), a scan over src: tp holds the bytes stored so
\* far, colonp the place of "::" in them (-1: none), curtok the start of the
\* group being read, val and ndigits the group's value and length.
RECURSIVE inet_pton6_scan(_, _, _, _, _, _, _)
inet_pton6_scan(src, curtok, tp, colonp, saw_xdigit, val, ndigits) ==
  IF src = <<>> THEN inet_pton6_end(tp, colonp, saw_xdigit, val)
  ELSE LET ch == Head(src)
           rest == Tail(src)
       IN  IF isxdigit(ch)
           THEN IF ndigits + 1 > 4 THEN PtonFail
                ELSE inet_pton6_scan(rest, curtok, tp, colonp, TRUE,
                                     val * 16 + XDigitVal(ch), ndigits + 1)
           ELSE IF ch = ":"
           THEN IF ~saw_xdigit
                THEN IF colonp # -1 THEN PtonFail
                     ELSE inet_pton6_scan(rest, rest, tp, Len(tp), FALSE, val, ndigits)
                ELSE IF rest = <<>> THEN PtonFail
                ELSE IF Len(tp) + 2 > 16 THEN PtonFail
                ELSE inet_pton6_scan(rest, rest, tp \o <<val \div 256, val % 256>>,
                                     colonp, FALSE, 0, 0)
           ELSE IF ch = "." /\ Len(tp) + 4 <= 16 /\ inet_pton4(curtok).ok = 1
           THEN inet_pton6_end(tp \o inet_pton4(curtok).addr, colonp, FALSE, 0)
           ELSE PtonFail

inet_pton6(src) ==
  IF At(src, 1) = ":"
  THEN IF At(src, 2) # ":" THEN PtonFail
       ELSE inet_pton6_scan(Tail(src), Tail(src), <<>>, -1, FALSE, 0, 0)
  ELSE inet_pton6_scan(src, src, <<>>, -1, FALSE, 0, 0)

(***************************************************************************)
(* The checks of the kinds of host strings                                 *)
(***************************************************************************)
HOST_TYPE_NAME == "HOST_TYPE_NAME"
HOST_TYPE_IPV4 == "HOST_TYPE_IPV4"
HOST_TYPE_IPV6 == "HOST_TYPE_IPV6"
HOST_TYPE_CIDR_BLOCK == "HOST_TYPE_CIDR_BLOCK"
HOST_TYPE_RANGE_SHORT == "HOST_TYPE_RANGE_SHORT"
HOST_TYPE_RANGE_LONG == "HOST_TYPE_RANGE_LONG"

\* The -1 determine_host_type returns for a string of no type.
HOST_TYPE_ERROR == "-1"

is_ipv4_address(str) == inet_pton4(str).ok = 1

is_ipv6_address(str) == inet_pton6(str).ok = 1

is_cidr_block(str) ==
  LET slash == strchr(str, "/")
      addr_str == Before(str, slash)
      block_str == After(str, slash)
      block == strtol(block_str)
  IN  IF slash = 0 THEN FALSE
      ELSE IF ~is_ipv4_address(addr_str) \/ ~isdigit(At(block_str, 1)) THEN FALSE
      ELSE IF block.p # <<>> \/ block.val <= 0 \/ block.val > 30 THEN FALSE
      ELSE TRUE

\* cidr_get_block: -1 on error, the block value otherwise (the code returns 0
\* and stores the value through its second argument).
cidr_get_block(str) ==
  IF sscanf_block(str).converted # 1 THEN -1 ELSE sscanf_block(str).block

\* cidr_get_ip: [ret, addr]
cidr_get_ip(str) ==
  LET slash == strchr(str, "/")
      addr_str == Before(str, slash)
  IN  IF slash = 0 THEN [ret |-> -1, addr |-> <<>>]
      ELSE IF inet_pton4(addr_str).ok # 1 THEN [ret |-> -1, addr |-> <<>>]
      ELSE [ret |-> 0, addr |-> inet_pton4(addr_str).addr]

IpsFail == [ret |-> -1, first |-> <<>>, last |-> <<>>]

\* cidr_block_ips with a last address that is one too high, the broadcast
\* address of the block.
cidr_block_ips_broadcast(str, shl) ==
  LET first0 == cidr_get_ip(str).addr
      mask == htonl(U32Xor(U32Max, U32Sub(shl, U32One)))
      first1 == htonl(U32And(ntohl(first0), ntohl(mask)))
      first == htonl(U32Add(ntohl(first1), U32One))
      last == htonl(U32Sub(U32Add(ntohl(first), shl), U32(0, 2)))
  IN  IF cidr_get_block(str) = -1 THEN IpsFail
      ELSE IF cidr_get_ip(str).ret = -1 THEN IpsFail
      ELSE [ret |-> 0, first |-> first, last |-> last]

\* cidr_block_ips, given the value shl of its expression 1 << (32 - block).
cidr_block_ips(str, shl) ==
  LET first0 == cidr_get_ip(str).addr
      mask == htonl(U32Xor(U32Max, U32Sub(shl, U32One)))
      first1 == htonl(U32And(ntohl(first0), ntohl(mask)))
      first == htonl(U32Add(ntohl(first1), U32One))
      last == htonl(U32Sub(U32Add(ntohl(first), shl), U32(0, 3)))
  IN  IF cidr_get_block(str) = -1 THEN IpsFail
      ELSE IF cidr_get_ip(str).ret = -1 THEN IpsFail
      ELSE [ret |-> 0, first |-> first, last |-> last]

is_long_range_network(str) ==
  LET dash == strchr(str, "-")
  IN  IF dash = 0 THEN FALSE
      ELSE is_ipv4_address(Before(str, dash)) /\ is_ipv4_address(After(str, dash))

long_range_network_ips(str) ==
  LET dash == strchr(str, "-")
      first == inet_pton4(Before(str, dash))
      last == inet_pton4(After(str, dash))
  IN  IF dash = 0 THEN IpsFail
      ELSE IF first.ok # 1 \/ last.ok # 1 THEN IpsFail
      ELSE [ret |-> 0, first |-> first.addr, last |-> last.addr]

is_short_range_network(str) ==
  LET dash == strchr(str, "-")
      ip_str == Before(str, dash)
      end_str == After(str, dash)
      end == strtol(end_str)
  IN  IF dash = 0 THEN FALSE
      ELSE IF ~is_ipv4_address(ip_str) \/ ~isdigit(At(end_str, 1)) THEN FALSE
      ELSE IF end.p # <<>> \/ end.val < 0 \/ end.val > 255 THEN FALSE
      ELSE TRUE

short_range_network_ips(str) ==
  LET dash == strchr(str, "-")
      end == atoi(After(str, dash))
      first == inet_pton4(Before(str, dash))
      last == htonl(U32AddInt(U32And(ntohl(first.addr), U32(65535, 65280)), end))
  IN  IF dash = 0 THEN IpsFail
      ELSE IF first.ok # 1 THEN IpsFail
      ELSE [ret |-> 0, first |-> first.addr, last |-> last]

is_hostname(str) ==
  /\ \A i \in DOMAIN str : isalnum(str[i]) \/ str[i] \in {"-", "_", "."}
  /\ Len(str) < 256

\* determine_host_type with the fallback to a hostname its last comment
\* thinks of.
determine_host_type_fallback(str_stripped) ==
  IF str_stripped = <<>> THEN HOST_TYPE_ERROR
  ELSE IF is_ipv4_address(str_stripped) THEN HOST_TYPE_IPV4
  ELSE IF is_ipv6_address(str_stripped) THEN HOST_TYPE_IPV6
  ELSE IF is_cidr_block(str_stripped) THEN HOST_TYPE_CIDR_BLOCK
  ELSE IF is_short_range_network(str_stripped) THEN HOST_TYPE_RANGE_SHORT
  ELSE IF is_long_range_network(str_stripped) THEN HOST_TYPE_RANGE_LONG
  ELSE HOST_TYPE_NAME

\* determine_host_type with the check for a hostname before the checks for
\* the two kinds of range.
determine_host_type_name_first(str_stripped) ==
  IF str_stripped = <<>> THEN HOST_TYPE_ERROR
  ELSE IF is_ipv4_address(str_stripped) THEN HOST_TYPE_IPV4
  ELSE IF is_ipv6_address(str_stripped) THEN HOST_TYPE_IPV6
  ELSE IF is_cidr_block(str_stripped) THEN HOST_TYPE_CIDR_BLOCK
  ELSE IF is_hostname(str_stripped) THEN HOST_TYPE_NAME
  ELSE IF is_short_range_network(str_stripped) THEN HOST_TYPE_RANGE_SHORT
  ELSE IF is_long_range_network(str_stripped) THEN HOST_TYPE_RANGE_LONG
  ELSE HOST_TYPE_ERROR

determine_host_type(str_stripped) ==
  IF str_stripped = <<>> THEN HOST_TYPE_ERROR
  ELSE IF is_ipv4_address(str_stripped) THEN HOST_TYPE_IPV4
  ELSE IF is_ipv6_address(str_stripped) THEN HOST_TYPE_IPV6
  ELSE IF is_cidr_block(str_stripped) THEN HOST_TYPE_CIDR_BLOCK
  ELSE IF is_short_range_network(str_stripped) THEN HOST_TYPE_RANGE_SHORT
  ELSE IF is_long_range_network(str_stripped) THEN HOST_TYPE_RANGE_LONG
  ELSE IF is_hostname(str_stripped) THEN HOST_TYPE_NAME
  ELSE HOST_TYPE_ERROR

(***************************************************************************)
(* glib: pointers, strings, lists                                          *)
(***************************************************************************)
\* A pointer is NULL or points to one value.
NULL == <<>>
Ptr(x) == <<x>>
Deref(p) == p[1]

\* The string with its newlines left in.
NormalizeSeparators_none(str) == str

\* The loop of openvas_hosts_new that turns the newlines into commas.
NormalizeSeparators(str) == [i \in DOMAIN str |-> IF str[i] = "\n" THEN "," ELSE str[i]]

\* g_strsplit (string, ",", 0): the pieces between the commas; the empty
\* string has no piece.
RECURSIVE SplitPieces(_)
SplitPieces(str) ==
  LET comma == strchr(str, ",")
  IN  IF comma = 0 THEN <<str>>
      ELSE <<Before(str, comma)>> \o SplitPieces(After(str, comma))

g_strsplit(str) == IF str = <<>> THEN <<>> ELSE SplitPieces(str)

RECURSIVE g_strchug(_)
g_strchug(str) ==
  IF str # <<>> /\ g_ascii_isspace(Head(str)) THEN g_strchug(Tail(str)) ELSE str

RECURSIVE g_strchomp(_)
g_strchomp(str) ==
  IF str # <<>> /\ g_ascii_isspace(str[Len(str)])
  THEN g_strchomp(SubSeq(str, 1, Len(str) - 1)) ELSE str

g_strstrip(str) == g_strchomp(g_strchug(str))

g_list_prepend(list, data) == <<data>> \o list

\* A list left in the order it was built in.
g_list_reverse_none(list) == list

g_list_reverse(list) == [i \in DOMAIN list |-> list[Len(list) + 1 - i]]

\* g_list_delete_link and g_list_remove_link of the element at position i.
g_list_remove_link(list, i) == SubSeq(list, 1, i - 1) \o SubSeq(list, i + 1, Len(list))

(***************************************************************************)
(* openvas_host_t                                                          *)
(***************************************************************************)
ZeroAddr == <<0, 0, 0, 0>>
ZeroAddr6 == Zeros(16)

\* openvas_host_new: g_malloc0 gives a host with every byte zero.  The three
\* values of the host share their storage in the code; the model keeps the
\* ones the type does not select at zero.
openvas_host_new == [type |-> HOST_TYPE_NAME, name |-> NULL, addr |-> ZeroAddr, addr6 |-> ZeroAddr6]

NameHost(str) == [openvas_host_new EXCEPT !.type = HOST_TYPE_NAME, !.name = str]
Ipv4Host(addr) == [openvas_host_new EXCEPT !.type = HOST_TYPE_IPV4, !.addr = addr]
Ipv6Host(addr6) == [openvas_host_new EXCEPT !.type = HOST_TYPE_IPV6, !.addr6 = addr6]

\* openvas_host_equal without the comparison of the values.
openvas_host_equal_type(host, host2) == host.type = host2.type

openvas_host_equal(host, host2) ==
  IF host.type # host2.type THEN FALSE
  ELSE IF host.type = HOST_TYPE_IPV4 THEN host.addr = host2.addr
  ELSE IF host.type = HOST_TYPE_IPV6 THEN host.addr6 = host2.addr6
  ELSE IF host.type = HOST_TYPE_NAME THEN host.name = host2.name
  ELSE FALSE

\* The inner loop of openvas_hosts_remove_duplicates: the hosts after
\* position next that equal host are removed, removed counting them.
RECURSIVE RemoveLater(_, _, _, _)
RemoveLater(list, host, next, removed) ==
  IF next > Len(list) THEN [hosts |-> list, removed |-> removed]
  ELSE IF openvas_host_equal(host, list[next])
  THEN RemoveLater(g_list_remove_link(list, next), host, next, removed + 1)
  ELSE RemoveLater(list, host, next + 1, removed)

\* An outer loop whose inner loop starts at the host itself.
RECURSIVE RemoveDuplicatesFrom_self(_, _, _)
RemoveDuplicatesFrom_self(list, element, removed) ==
  IF element > Len(list) THEN [hosts |-> list, removed |-> removed]
  ELSE LET r == RemoveLater(list, list[element], element, removed)
       IN  RemoveDuplicatesFrom_self(r.hosts, element + 1, r.removed)

\* The outer loop of openvas_hosts_remove_duplicates, element being the
\* position of the host compared with the later ones.
RECURSIVE RemoveDuplicatesFrom(_, _, _)
RemoveDuplicatesFrom(list, element, removed) ==
  IF element > Len(list) THEN [hosts |-> list, removed |-> removed]
  ELSE LET r == RemoveLater(list, list[element], element + 1, removed)
       IN  RemoveDuplicatesFrom(r.hosts, element + 1, r.removed)

\* openvas_hosts_remove_duplicates: the list and the count it leaves.
openvas_hosts_remove_duplicates(list, removed) == RemoveDuplicatesFrom(list, 1, removed)

\* The position of the first element of a list, 0 (NULL) for the empty list.
ListHead(list) == IF list = <<>> THEN 0 ELSE 1

\* A step of two elements.
g_list_next_skip(list, i) == IF i + 1 >= Len(list) THEN 0 ELSE i + 2

\* g_list_next of the element at position i
g_list_next(list, i) == IF i = Len(list) THEN 0 ELSE i + 1

\* The rounds of a shuffle whose random position is never the last one.
RECURSIVE ShuffleRounds_short(_, _, _)
ShuffleRounds_short(list, new_list, count) ==
  IF count = 0 THEN {new_list}
  ELSE UNION {ShuffleRounds_short(g_list_remove_link(list, r + 1),
                                  <<list[r + 1]>> \o new_list, count - 1) :
                r \in 0..(IF count > 1 THEN count - 2 ELSE 0)}

\* The lists openvas_hosts_shuffle can build from list and new_list in count
\* more rounds, one for every sequence of values of g_rand_int_range.
RECURSIVE ShuffleRounds(_, _, _)
ShuffleRounds(list, new_list, count) ==
  IF count = 0 THEN {new_list}
  ELSE UNION {ShuffleRounds(g_list_remove_link(list, r + 1),
                            <<list[r + 1]>> \o new_list, count - 1) : r \in 0..(count - 1)}

openvas_hosts_count(list) == Len(list)

(***************************************************************************)
(* Bounds of the model                                                     *)
(***************************************************************************)
\* The most tokens of a hosts string.
MaxTokens == 2

\* The most hosts a list holds: a range larger than that is not expanded
\* further.
MaxHosts == 16

\* The longest list that is shuffled.
MaxShuffle == 3

\* The most calls of openvas_hosts_next past the end of the list.
MaxExtraNext == 2

(***************************************************************************)
(* The hosts strings the model is run on                                   *)
(***************************************************************************)
RECURSIVE Dec(_)
Dec(n) == IF n < 10 THEN <<DigitChars[n + 1]>> ELSE Dec(n \div 10) \o <<DigitChars[(n % 10) + 1]>>

Ip(a, b, c, d) == Dec(a) \o <<".">> \o Dec(b) \o <<".">> \o Dec(c) \o <<".">> \o Dec(d)

ShortRange(addr, n) == addr \o <<"-">> \o Dec(n)
LongRange(addr, addr2) == addr \o <<"-">> \o addr2
Cidr(addr, p) == addr \o <<"/">> \o Dec(p)

Mapped6 == <<":", ":", "f", "f", "f", "f", ":">> \o Ip(10, 0, 0, 1)
Groups6 == <<"0", ":", "0", ":", "0", ":", "0", ":", "0", ":", "F", "F", "F", "F", ":",
             "a", "0", "0", ":", "1">>
HostName == <<"h", "-", "1">>
NotAHost == <<"n", "o", " ", "h", "!">>

\* The tokens of the hosts strings of Spec: one of each kind, some of them
\* naming the same hosts, and the tokens that are dropped.
Tokens ==
  { Ip(10, 0, 0, 1),
    ShortRange(Ip(10, 0, 0, 1), 2),
    LongRange(Ip(10, 0, 0, 2), Ip(10, 0, 0, 3)),
    LongRange(Ip(10, 0, 0, 3), Ip(10, 0, 0, 2)),
    Cidr(Ip(10, 0, 0, 0), 30),
    Mapped6,
    Groups6,
    HostName,
    NotAHost,
    <<>>,
    <<" ">>,
    <<" ">> \o Ip(10, 0, 0, 1) \o <<"\t">>,
    ShortRange(Ip(255, 255, 255, 254), 255) }

RECURSIVE Join(_, _)
Join(toks, sep) ==
  IF toks = <<>> THEN <<>>
  ELSE IF Len(toks) = 1 THEN toks[1]
  ELSE toks[1] \o <<sep>> \o Join(Tail(toks), sep)

TokenSeqs(toks, n) == UNION {[1..k -> toks] : k \in 0..n}

\* The arguments of openvas_hosts_new: NULL, or up to MaxTokens tokens joined
\* by commas or by newlines.
HostsStrings ==
  {NULL} \cup {Ptr(Join(ts, sep)) : ts \in TokenSeqs(Tokens, MaxTokens), sep \in {",", "\n"}}

(***************************************************************************)
(* The state                                                               *)
(***************************************************************************)
VARIABLES
  pc,            \* where the caller is: "call", "scan", "expand", "ready", "null"
  hosts_str,     \* the argument of openvas_hosts_new
  orig_str,      \* hosts->orig_str
  split,         \* the pieces g_strsplit returned
  host_element,  \* the position in split of the piece the loop is at
  hosts,         \* hosts->hosts, the list of hosts
  removed,       \* hosts->removed
  current,       \* hosts->current: a position in hosts, 0 for NULL
  first,         \* the locals of the block that expands a range
  last,
  cur,
  returned,      \* what the calls of openvas_hosts_next returned since the
                 \* cursor was last set to the start of the list
  op,            \* the operation that ran last
  shuffled,      \* whether openvas_hosts_shuffle ran on the list
  host,          \* the arguments of openvas_host_resolve
  dst,
  family,
  info,          \* what getaddrinfo gave: its return value and its list
  ret            \* what openvas_host_resolve returned

vars ==
  <<pc, hosts_str, orig_str, split, host_element, hosts, removed, current,
    first, last, cur, returned, op, shuffled, host, dst, family, info, ret>>

\* The variables of the hosts collection and of its construction.
hosts_vars ==
  <<hosts_str, orig_str, split, host_element, hosts, removed, current,
    first, last, cur, returned, shuffled>>

\* The variables of a call of openvas_host_resolve.
resolve_vars == <<host, dst, family, info, ret>>

AF_INET == "AF_INET"
AF_INET6 == "AF_INET6"
AF_UNSPEC == "AF_UNSPEC"

\* getaddrinfo was not called.
NoInfo == [rc |-> 0, list |-> <<>>]

InitWith(strings) ==
  /\ pc = "call"
  /\ hosts_str \in strings
  /\ orig_str = NULL
  /\ split = <<>>
  /\ host_element = 0
  /\ hosts = <<>>
  /\ removed = 0
  /\ current = 0
  /\ first = ZeroAddr
  /\ last = ZeroAddr
  /\ cur = ZeroAddr
  /\ returned = <<>>
  /\ op = "none"
  /\ shuffled = FALSE
  /\ host = NULL
  /\ dst = NULL
  /\ family = AF_UNSPEC
  /\ info = NoInfo
  /\ ret = 0

Init == InitWith(HostsStrings)

(***************************************************************************)
(* openvas_hosts_new                                                       *)
(***************************************************************************)
\* The NULL check, the copy of the string with its separators normalized and
\* the split.
openvas_hosts_new_call ==
  /\ pc = "call"
  /\ op' = "openvas_hosts_new"
  /\ IF hosts_str = NULL
     THEN /\ pc' = "null"
          /\ UNCHANGED <<orig_str, split, host_element>>
     ELSE /\ pc' = "scan"
          /\ orig_str' = Ptr(NormalizeSeparators(Deref(hosts_str)))
          /\ split' = g_strsplit(NormalizeSeparators(Deref(hosts_str)))
          /\ host_element' = 1
  /\ UNCHANGED <<hosts_str, hosts, removed, current, first, last, cur, returned, shuffled>>
  /\ UNCHANGED resolve_vars

\* What ips_func gives for a token of one of the three range types.
ips_func(host_type, stripped, shl) ==
  IF host_type = HOST_TYPE_CIDR_BLOCK THEN cidr_block_ips(stripped, shl)
  ELSE IF host_type = HOST_TYPE_RANGE_SHORT THEN short_range_network_ips(stripped)
  ELSE long_range_network_ips(stripped)

\* The host of a token of one of the three single types.
SingleHost(host_type, stripped) ==
  IF host_type = HOST_TYPE_NAME THEN NameHost(stripped)
  ELSE IF host_type = HOST_TYPE_IPV4 THEN Ipv4Host(inet_pton4(stripped).addr)
  ELSE Ipv6Host(inet_pton6(stripped).addr)

\* One round of the loop over the pieces, up to the loop that adds the
\* addresses of a range.
openvas_hosts_new_token ==
  /\ pc = "scan"
  /\ host_element <= Len(split)
  /\ LET stripped == g_strstrip(split[host_element])
         host_type == determine_host_type(stripped)
     IN  IF stripped = <<>>
         THEN /\ host_element' = host_element + 1
              /\ UNCHANGED <<pc, hosts, removed, first, last, cur>>
         ELSE IF host_type \in {HOST_TYPE_NAME, HOST_TYPE_IPV4, HOST_TYPE_IPV6}
         THEN /\ hosts' = g_list_prepend(hosts, SingleHost(host_type, stripped))
              /\ host_element' = host_element + 1
              /\ UNCHANGED <<pc, removed, first, last, cur>>
         ELSE IF host_type \in {HOST_TYPE_CIDR_BLOCK, HOST_TYPE_RANGE_SHORT, HOST_TYPE_RANGE_LONG}
         THEN \E shl \in (IF host_type = HOST_TYPE_CIDR_BLOCK
                          THEN ShlOutcomes(32 - cidr_get_block(stripped))
                          ELSE {U32Zero}) :
                LET ips == ips_func(host_type, stripped, shl)
                IN  IF ips.ret = -1
                    THEN /\ host_element' = host_element + 1
                         /\ UNCHANGED <<pc, hosts, removed, first, last, cur>>
                    ELSE IF U32Gt(ntohl(ips.first), ntohl(ips.last))
                    THEN /\ host_element' = host_element + 1
                         /\ UNCHANGED <<pc, hosts, removed, first, last, cur>>
                    ELSE /\ pc' = "expand"
                         /\ first' = ips.first
                         /\ last' = ips.last
                         /\ cur' = ips.first
                         /\ UNCHANGED <<host_element, hosts, removed>>
         ELSE /\ removed' = removed + 1
              /\ host_element' = host_element + 1
              /\ UNCHANGED <<pc, hosts, first, last, cur>>
  /\ UNCHANGED <<hosts_str, orig_str, split, current, returned, op, shuffled>>
  /\ UNCHANGED resolve_vars

\* One round of the loop that adds the addresses from first to last, or its
\* end and the move to the next piece.
openvas_hosts_new_add ==
  /\ pc = "expand"
  /\ IF U32Leq(ntohl(cur), ntohl(last))
     THEN /\ Len(hosts) < MaxHosts
          /\ hosts' = g_list_prepend(hosts, Ipv4Host(cur))
          /\ cur' = htonl(U32Add(ntohl(cur), U32One))
          /\ UNCHANGED <<pc, host_element, first, last>>
     ELSE /\ pc' = "scan"
          /\ host_element' = host_element + 1
          /\ first' = ZeroAddr
          /\ last' = ZeroAddr
          /\ cur' = ZeroAddr
          /\ UNCHANGED hosts
  /\ UNCHANGED <<hosts_str, orig_str, split, removed, current, returned, op, shuffled>>
  /\ UNCHANGED resolve_vars

\* The end of openvas_hosts_new: the list is reversed, its duplicates are
\* removed, the cursor is set to its start and the pieces are freed.
openvas_hosts_new_return ==
  /\ pc = "scan"
  /\ host_element > Len(split)
  /\ LET r == openvas_hosts_remove_duplicates(g_list_reverse(hosts), removed)
     IN  /\ hosts' = r.hosts
         /\ removed' = r.removed
         /\ current' = ListHead(r.hosts)
  /\ split' = <<>>
  /\ host_element' = 0
  /\ pc' = "ready"
  /\ UNCHANGED <<hosts_str, orig_str, first, last, cur, returned, op, shuffled>>
  /\ UNCHANGED resolve_vars

(***************************************************************************)
(* openvas_hosts_next and openvas_hosts_shuffle                            *)
(***************************************************************************)
openvas_hosts_next ==
  /\ pc \in {"ready", "null"}
  /\ Len(returned) < Len(hosts) + MaxExtraNext
  /\ op' = "openvas_hosts_next"
  /\ IF pc = "null" \/ current = 0
     THEN /\ returned' = Append(returned, NULL)
          /\ UNCHANGED current
     ELSE /\ returned' = Append(returned, Ptr(hosts[current]))
          /\ current' = g_list_next(hosts, current)
  /\ UNCHANGED <<pc, hosts_str, orig_str, split, host_element, hosts, removed, first, last, cur, shuffled>>
  /\ UNCHANGED resolve_vars

openvas_hosts_shuffle ==
  /\ pc = "ready"
  /\ Len(hosts) <= MaxShuffle
  /\ op' = "openvas_hosts_shuffle"
  /\ hosts' \in ShuffleRounds(hosts, <<>>, openvas_hosts_count(hosts))
  /\ current' = ListHead(hosts')
  /\ returned' = <<>>
  /\ shuffled' = TRUE
  /\ UNCHANGED <<pc, hosts_str, orig_str, split, host_element, removed, first, last, cur>>
  /\ UNCHANGED resolve_vars

Next ==
  \/ openvas_hosts_new_call
  \/ openvas_hosts_new_token
  \/ openvas_hosts_new_add
  \/ openvas_hosts_new_return
  \/ openvas_hosts_next
  \/ openvas_hosts_shuffle

Spec == Init /\ [][Next]_vars

(***************************************************************************)
(* openvas_hosts_remove_duplicates on the collection openvas_hosts_new     *)
(* returned, which it has been applied to already                          *)
(***************************************************************************)
\* returned is left as it is: it shows where the cursor was before the call.
remove_duplicates_again ==
  /\ pc = "ready"
  /\ op' = "openvas_hosts_remove_duplicates"
  /\ LET r == openvas_hosts_remove_duplicates(hosts, removed)
     IN  /\ hosts' = r.hosts
         /\ removed' = r.removed
         /\ current' = ListHead(r.hosts)
  /\ UNCHANGED <<pc, hosts_str, orig_str, split, host_element, first, last, cur, returned, shuffled>>
  /\ UNCHANGED resolve_vars

NextDedup ==
  \/ openvas_hosts_new_call
  \/ openvas_hosts_new_token
  \/ openvas_hosts_new_add
  \/ openvas_hosts_new_return
  \/ openvas_hosts_next
  \/ openvas_hosts_shuffle
  \/ remove_duplicates_again

\* Hosts strings of up to MaxTokens tokens that repeat hosts: an address,
\* two ranges that hold it, an IPv6 address in two spellings, a name.
DedupTokens ==
  { Ip(10, 0, 0, 1),
    ShortRange(Ip(10, 0, 0, 1), 2),
    Cidr(Ip(10, 0, 0, 0), 30),
    Mapped6,
    Groups6,
    HostName }

DedupStrings == {Ptr(Join(ts, ",")) : ts \in TokenSeqs(DedupTokens, MaxTokens)}

InitDedup == InitWith(DedupStrings)

SpecDedup == InitDedup /\ [][NextDedup]_vars

(***************************************************************************)
(* Hosts strings of one range: every prefix length on addresses with and   *)
(* without host bits, short and long ranges in both orders, across a byte  *)
(* boundary and up to the highest address.                                 *)
(***************************************************************************)
IpOf(a) == Ip(a[1], a[2], a[3], a[4])

CidrAddrs == {<<10, 0, 0, 0>>, <<10, 0, 0, 77>>, <<192, 168, 3, 77>>, <<255, 255, 255, 255>>}
PrefixLengths == 1..30

ShortAddrs == {<<10, 0, 0, 5>>, <<255, 255, 255, 253>>}
ShortEnds == {0, 4, 5, 6, 9, 253, 254, 255}

LongAddrs ==
  {<<10, 0, 0, 5>>, <<10, 0, 0, 7>>, <<10, 0, 0, 254>>, <<10, 0, 1, 1>>,
   <<255, 255, 255, 254>>, <<255, 255, 255, 255>>}

RangeStrings ==
  {Ptr(Cidr(IpOf(a), p)) : a \in CidrAddrs, p \in PrefixLengths}
    \cup {Ptr(ShortRange(IpOf(a), n)) : a \in ShortAddrs, n \in ShortEnds}
    \cup {Ptr(LongRange(IpOf(a), IpOf(b))) : a \in LongAddrs, b \in LongAddrs}

InitRange == InitWith(RangeStrings)

SpecRange == InitRange /\ [][Next]_vars

(***************************************************************************)
(* Hosts strings of one token <ipv4>/<suffix>: suffixes of one and two     *)
(* digits in and out of [1,30], of three and four digits with leading      *)
(* zeros, and with chars that are not digits.                              *)
(***************************************************************************)
SuffixAddrs == {<<10, 0, 0, 0>>, <<192, 168, 3, 77>>}

Suffixes ==
  { <<"1">>, <<"9">>, <<"0">>, <<"0", "0">>, <<"0", "9">>, <<"2", "4">>,
    <<"2", "8">>, <<"2", "9">>, <<"3", "0">>, <<"3", "1">>, <<"3", "2">>,
    <<"9", "9">>, <<"0", "2", "4">>, <<"0", "3", "0">>, <<"0", "0", "1">>,
    <<"0", "0", "0">>, <<"1", "0", "0">>, <<"3", "0", "0">>,
    <<"0", "0", "2", "9">>, <<"2", "x">>, <<"x">>, <<>>, <<"-", "1">>,
    <<"+", "5">>, <<"2", " ", "4">>, <<"2", "4", "/">>, <<"3", ".", "0">> }

SuffixStrings == {Ptr(IpOf(a) \o <<"/">> \o x) : a \in SuffixAddrs, x \in Suffixes}

InitCidr == InitWith(SuffixStrings)

SpecCidr == InitCidr /\ [][Next]_vars

(***************************************************************************)
(* Hosts strings of one token that more than one check of                  *)
(* determine_host_type matches, or that is near to a range                 *)
(***************************************************************************)
\* Each token with the type and the hosts it stands for.
TypeCases ==
  { [tok |-> Ip(10, 0, 0, 1), type |-> HOST_TYPE_IPV4,
     hosts |-> <<Ipv4Host(<<10, 0, 0, 1>>)>>],
    [tok |-> Ip(255, 255, 255, 255), type |-> HOST_TYPE_IPV4,
     hosts |-> <<Ipv4Host(<<255, 255, 255, 255>>)>>],
    [tok |-> Mapped6, type |-> HOST_TYPE_IPV6,
     hosts |-> <<Ipv6Host(<<0, 0, 0, 0, 0, 0, 0, 0, 0, 0, 255, 255, 10, 0, 0, 1>>)>>],
    [tok |-> Cidr(Ip(10, 0, 0, 0), 30), type |-> HOST_TYPE_CIDR_BLOCK,
     hosts |-> <<Ipv4Host(<<10, 0, 0, 1>>), Ipv4Host(<<10, 0, 0, 2>>)>>],
    [tok |-> ShortRange(Ip(10, 0, 0, 1), 2), type |-> HOST_TYPE_RANGE_SHORT,
     hosts |-> <<Ipv4Host(<<10, 0, 0, 1>>), Ipv4Host(<<10, 0, 0, 2>>)>>],
    [tok |-> ShortRange(Ip(10, 0, 0, 254), 255), type |-> HOST_TYPE_RANGE_SHORT,
     hosts |-> <<Ipv4Host(<<10, 0, 0, 254>>), Ipv4Host(<<10, 0, 0, 255>>)>>],
    [tok |-> LongRange(Ip(10, 0, 0, 255), Ip(10, 0, 1, 1)), type |-> HOST_TYPE_RANGE_LONG,
     hosts |-> <<Ipv4Host(<<10, 0, 0, 255>>), Ipv4Host(<<10, 0, 1, 0>>),
                 Ipv4Host(<<10, 0, 1, 1>>)>>],
    [tok |-> ShortRange(Ip(10, 0, 0, 254), 256), type |-> HOST_TYPE_NAME,
     hosts |-> <<NameHost(ShortRange(Ip(10, 0, 0, 254), 256))>>],
    [tok |-> ShortRange(Ip(10, 0, 0, 1), 1000), type |-> HOST_TYPE_NAME,
     hosts |-> <<NameHost(ShortRange(Ip(10, 0, 0, 1), 1000))>>],
    [tok |-> Ip(10, 0, 0, 1) \o <<"-", "0", "2", "5", "6">>, type |-> HOST_TYPE_NAME,
     hosts |-> <<NameHost(Ip(10, 0, 0, 1) \o <<"-", "0", "2", "5", "6">>)>>],
    [tok |-> Ip(10, 0, 0, 1) \o <<"-">>, type |-> HOST_TYPE_NAME,
     hosts |-> <<NameHost(Ip(10, 0, 0, 1) \o <<"-">>)>>],
    [tok |-> Ip(10, 0, 0, 1) \o <<"-", "2", "x">>, type |-> HOST_TYPE_NAME,
     hosts |-> <<NameHost(Ip(10, 0, 0, 1) \o <<"-", "2", "x">>)>>],
    [tok |-> Ip(10, 0, 0, 1) \o <<"-", "2", "-", "3">>, type |-> HOST_TYPE_NAME,
     hosts |-> <<NameHost(Ip(10, 0, 0, 1) \o <<"-", "2", "-", "3">>)>>],
    [tok |-> LongRange(Ip(10, 0, 0, 1), Ip(10, 0, 0, 256)), type |-> HOST_TYPE_NAME,
     hosts |-> <<NameHost(LongRange(Ip(10, 0, 0, 1), Ip(10, 0, 0, 256)))>>],
    [tok |-> Ip(10, 0, 0, 256), type |-> HOST_TYPE_NAME,
     hosts |-> <<NameHost(Ip(10, 0, 0, 256))>>],
    [tok |-> HostName, type |-> HOST_TYPE_NAME,
     hosts |-> <<NameHost(HostName)>>],
    [tok |-> Cidr(Ip(10, 0, 0, 0), 31), type |-> HOST_TYPE_ERROR, hosts |-> <<>>],
    [tok |-> ShortRange(Ip(10, 0, 0, 1), 2) \o <<"!">>, type |-> HOST_TYPE_ERROR, hosts |-> <<>>],
    [tok |-> NotAHost, type |-> HOST_TYPE_ERROR, hosts |-> <<>>] }

TypeStrings == {Ptr(c.tok) : c \in TypeCases}

InitType == InitWith(TypeStrings)

SpecType == InitType /\ [][Next]_vars

(***************************************************************************)
(* openvas_host_resolve                                                    *)
(***************************************************************************)
\* What getaddrinfo can give: an error, or 0 and a list of addresses, each
\* with its family.
ResolvedAddrs ==
  { [ai_family |-> AF_INET, addr |-> <<10, 0, 0, 9>>],
    [ai_family |-> AF_INET, addr |-> <<10, 0, 0, 8>>],
    [ai_family |-> AF_INET6, addr |-> inet_pton6(Mapped6).addr] }

MaxInfo == 2

GetaddrinfoOutcomes ==
  {[rc |-> -2, list |-> <<>>]}
    \cup {[rc |-> 0, list |-> l] : l \in UNION {[1..k -> ResolvedAddrs] : k \in 0..MaxInfo}}

\* The loop over the list of getaddrinfo: the buffer after it, which holds
\* the first address of the family, or what it held before.
RECURSIVE ResolveLoop(_, _, _)
ResolveLoop(p, buffer, fam) ==
  IF p = <<>> THEN buffer
  ELSE IF Head(p).ai_family = fam THEN Head(p).addr
  ELSE ResolveLoop(Tail(p), buffer, fam)

\* The value of a buffer nothing was written to.
Unwritten == <<>>

openvas_host_resolve ==
  /\ pc = "resolve"
  /\ pc' = "resolved"
  /\ op' = "openvas_host_resolve"
  /\ IF host = NULL \/ dst = NULL \/ Deref(host).type # HOST_TYPE_NAME
          \/ (family # AF_INET /\ family # AF_INET6)
     THEN /\ ret' = 0
          /\ UNCHANGED <<dst, info>>
     ELSE \E gai \in GetaddrinfoOutcomes :
            /\ info' = gai
            /\ IF gai.rc # 0
               THEN /\ ret' = -1
                    /\ UNCHANGED dst
               ELSE /\ dst' = Ptr(ResolveLoop(gai.list, Deref(dst), family))
                    /\ ret' = 0
  /\ UNCHANGED <<host, family>>
  /\ UNCHANGED hosts_vars

ResolveHosts ==
  { NameHost(HostName),
    NameHost(<<"a", ".", "b">>),
    Ipv4Host(<<10, 0, 0, 1>>),
    Ipv4Host(<<255, 255, 255, 255>>),
    Ipv6Host(inet_pton6(Mapped6).addr),
    Ipv6Host(ZeroAddr6) }

InitResolve ==
  /\ pc = "resolve"
  /\ hosts_str = NULL
  /\ orig_str = NULL
  /\ split = <<>>
  /\ host_element = 0
  /\ hosts = <<>>
  /\ removed = 0
  /\ current = 0
  /\ first = ZeroAddr
  /\ last = ZeroAddr
  /\ cur = ZeroAddr
  /\ returned = <<>>
  /\ op = "none"
  /\ shuffled = FALSE
  /\ host \in {NULL} \cup {Ptr(h) : h \in ResolveHosts}
  /\ dst \in {NULL, Ptr(Unwritten)}
  /\ family \in {AF_INET, AF_INET6, AF_UNSPEC}
  /\ info = NoInfo
  /\ ret = 0

NextResolve == openvas_host_resolve

SpecResolve == InitResolve /\ [][NextResolve]_vars

(***************************************************************************)
(* openvas_host_addr6                                                      *)
(***************************************************************************)
\* ipv4_mapped_ipv6: ::ffff:a.b.c.d for the IPv4 address ip4.
ipv4_mapped_ipv6(ip4) ==
  ZeroAddr \o ZeroAddr \o htonl(U32(0, 65535)) \o ip4

\* What the local struct in_addr ip4 of openvas_host_addr6 can hold before
\* anything is written to it: it is not initialised, so any bytes.
IndeterminateAddrs == {<<0, 0, 0, 0>>, <<10, 0, 0, 8>>, <<222, 173, 190, 239>>}

\* openvas_host_addr6 (host, ip6), with dst as the buffer ip6.  For a host
\* of type HOST_TYPE_NAME it calls openvas_host_resolve (host, &ip4, AF_INET),
\* whose first guard is false there: getaddrinfo is called, and only its
\* error gives -1.
openvas_host_addr6 ==
  /\ pc = "resolve"
  /\ pc' = "resolved"
  /\ op' = "openvas_host_addr6"
  /\ IF host = NULL \/ dst = NULL
     THEN /\ ret' = -1
          /\ UNCHANGED <<dst, info>>
     ELSE IF Deref(host).type = HOST_TYPE_IPV6
     THEN /\ dst' = Ptr(Deref(host).addr6)
          /\ ret' = 0
          /\ UNCHANGED info
     ELSE IF Deref(host).type = HOST_TYPE_IPV4
     THEN /\ dst' = Ptr(ipv4_mapped_ipv6(Deref(host).addr))
          /\ ret' = 0
          /\ UNCHANGED info
     ELSE IF Deref(host).type = HOST_TYPE_NAME
     THEN \E gai \in GetaddrinfoOutcomes :
            /\ info' = gai
            /\ IF gai.rc # 0
               THEN /\ ret' = -1
                    /\ UNCHANGED dst
               ELSE \E ip4 \in IndeterminateAddrs :
                      /\ dst' = Ptr(ipv4_mapped_ipv6(ResolveLoop(gai.list, ip4, AF_INET)))
                      /\ ret' = 0
     ELSE /\ ret' = -1
          /\ UNCHANGED <<dst, info>>
  /\ UNCHANGED <<host, family>>
  /\ UNCHANGED hosts_vars

NextAddr6 == openvas_host_resolve \/ openvas_host_addr6

SpecAddr6 == InitResolve /\ [][NextAddr6]_vars

(***************************************************************************)
(* What the claims are stated with                                         *)
(***************************************************************************)
\* The hosts string is the one token tok.
IsInput(tok) == hosts_str = Ptr(tok)

\* The one token of the hosts string has been handled: the loop is past it,
\* or openvas_hosts_new has returned.
TokenDone == (pc = "scan" /\ host_element = 2) \/ pc = "ready"

\* The number with the four bytes a, most significant first.
NumberOf(a) == U32(a[1] * 256 + a[2], a[3] * 256 + a[4])

\* The bytes of the number x, most significant first.
BytesOf(x) == <<x[1] \div 256, x[1] % 256, x[2] \div 256, x[2] % 256>>

\* a < b as numbers, for two addresses given by their bytes.
BytesLess(a, b) ==
  \E i \in 1..4 : a[i] < b[i] /\ \A j \in 1..(i - 1) : a[j] = b[j]

\* The n IPv4 hosts x, x + 1, ... in ascending and in descending order.
AscRun(x, n) == [i \in 1..n |-> Ipv4Host(BytesOf(U32AddInt(x, i - 1)))]
DescRun(x, n) == [i \in 1..n |-> Ipv4Host(BytesOf(U32AddInt(x, n - i)))]

\* The hosts of the list are the addresses F, F + 1, ... and go no further
\* than F + d: part of them while the range is expanded (the list is built
\* from its end), all of them once the token is done.
RunFromTo(F, d) ==
  /\ pc = "expand" =>
       /\ hosts = DescRun(F, Len(hosts))
       /\ Len(hosts) >= 1 => U32Leq(U32(0, Len(hosts) - 1), d)
  /\ pc = "scan" /\ host_element = 2 =>
       /\ hosts = DescRun(F, Len(hosts))
       /\ Len(hosts) >= 1 /\ U32(0, Len(hosts) - 1) = d
  /\ pc = "ready" =>
       /\ ~shuffled => hosts = AscRun(F, Len(hosts))
       /\ Len(hosts) >= 1 /\ U32(0, Len(hosts) - 1) = d
       /\ removed = 0

\* C1: a short or long range whose first address is greater than its last
\* one adds no host and is counted once in removed, so that every token
\* of SpecRange either adds one host at least or is counted in removed.
C1_InvertedRangeIsCounted ==
  TokenDone =>
    /\ \A a \in ShortAddrs, n \in ShortEnds :
         IsInput(ShortRange(IpOf(a), n)) /\ n < a[4] => hosts = <<>> /\ removed = 1
    /\ \A a \in LongAddrs, b \in LongAddrs :
         IsInput(LongRange(IpOf(a), IpOf(b))) /\ BytesLess(b, a) => hosts = <<>> /\ removed = 1
    /\ Len(hosts) >= 1 \/ removed >= 1

\* The address a with its low 32 - p bits cleared.
NetworkOf(a, p) ==
  LET x == NumberOf(a)
      k == 32 - p
  IN  IF k <= 16 THEN U32(x[1], x[2] - (x[2] % (2 ^ k)))
      ELSE U32(x[1] - (x[1] % (2 ^ (k - 16))), 0)

\* 2^(32-p) - 2
Usable(p) == 2 * (2 ^ (31 - p) - 1)

\* C2: the token A/p, p in 1..30, gives the 2^(32-p) - 2 addresses N + 1 to
\* N + 2^(32-p) - 2 in ascending order, N being A with its low 32 - p bits
\* cleared: first and last are these bounds, the hosts added are consecutive
\* from N + 1 and stop at the last one, whatever the host bits of A.
C2_CidrBlockHosts ==
  \A a \in CidrAddrs, p \in PrefixLengths :
    IsInput(Cidr(IpOf(a), p)) =>
      LET N == NetworkOf(a, p)
      IN  /\ pc = "expand" =>
                /\ first = BytesOf(U32AddInt(N, 1))
                /\ last = BytesOf(U32AddInt(N, Usable(p)))
                /\ cur = BytesOf(U32AddInt(N, Len(hosts) + 1))
          /\ pc \in {"expand", "scan", "ready"} /\ host_element >= 1 =>
                /\ Len(hosts) <= Usable(p)
                /\ \A i \in DOMAIN hosts :
                     /\ hosts[i].type = HOST_TYPE_IPV4
                     /\ hosts[i].addr # BytesOf(N)
                     /\ hosts[i].addr # BytesOf(U32AddInt(N, Usable(p) + 1))
          /\ pc = "expand" => hosts = DescRun(U32AddInt(N, 1), Len(hosts))
          /\ TokenDone => Len(hosts) = Usable(p) /\ removed = 0
          /\ pc = "scan" /\ host_element = 2 => hosts = DescRun(U32AddInt(N, 1), Usable(p))
          /\ pc = "ready" /\ ~shuffled => hosts = AscRun(U32AddInt(N, 1), Usable(p))

\* A block with host bits set in its address has been expanded in full.
C2_Witness ==
  /\ IsInput(Cidr(IpOf(<<192, 168, 3, 77>>), 29))
  /\ pc = "ready"
  /\ ~shuffled
  /\ Len(hosts) = 6
  /\ hosts[1].addr = <<192, 168, 3, 73>>
  /\ hosts[6].addr = <<192, 168, 3, 78>>

\* C3: a short range A-n and a long range A-B whose first address is not
\* greater than the last add the last - first + 1 addresses from first to
\* last in ascending order, and no other.
C3_RangeAddsFirstToLast ==
  /\ \A a \in ShortAddrs, n \in ShortEnds :
       IsInput(ShortRange(IpOf(a), n)) /\ a[4] <= n =>
         RunFromTo(NumberOf(a), U32(0, n - a[4]))
  /\ \A a \in LongAddrs, b \in LongAddrs :
       IsInput(LongRange(IpOf(a), IpOf(b))) /\ ~BytesLess(b, a) =>
         RunFromTo(NumberOf(a), U32Sub(NumberOf(b), NumberOf(a)))

(***************************************************************************)
(* The hosts the tokens of Spec stand for, written out token by token      *)
(***************************************************************************)
\* The pieces of a hosts string between its commas and newlines.
RECURSIVE Pieces(_, _)
Pieces(str, piece) ==
  IF str = <<>> THEN <<piece>>
  ELSE IF Head(str) \in {",", "\n"} THEN <<piece>> \o Pieces(Tail(str), <<>>)
  ELSE Pieces(Tail(str), Append(piece, Head(str)))

InputPieces == IF Deref(hosts_str) = <<>> THEN <<>> ELSE Pieces(Deref(hosts_str), <<>>)

\* A piece with nothing but white space in it.
Blank(tok) == \A i \in DOMAIN tok : tok[i] \in {" ", "\t"}

NotBlank(tok) == ~Blank(tok)

\* The token that is of no kind.
Malformed(tok) == tok = NotAHost

V4(d) == Ipv4Host(<<10, 0, 0, d>>)
V6Mapped == Ipv6Host(<<0, 0, 0, 0, 0, 0, 0, 0, 0, 0, 255, 255, 10, 0, 0, 1>>)

\* The hosts a token of Tokens stands for, in the order of their addresses.
ExpectedOf(tok) ==
  IF tok = Ip(10, 0, 0, 1) THEN <<V4(1)>>
  ELSE IF tok = ShortRange(Ip(10, 0, 0, 1), 2) THEN <<V4(1), V4(2)>>
  ELSE IF tok = LongRange(Ip(10, 0, 0, 2), Ip(10, 0, 0, 3)) THEN <<V4(2), V4(3)>>
  ELSE IF tok = LongRange(Ip(10, 0, 0, 3), Ip(10, 0, 0, 2)) THEN <<>>
  ELSE IF tok = Cidr(Ip(10, 0, 0, 0), 30) THEN <<V4(1), V4(2)>>
  ELSE IF tok = Mapped6 THEN <<V6Mapped>>
  ELSE IF tok = Groups6 THEN <<V6Mapped>>
  ELSE IF tok = HostName THEN <<NameHost(<<"h", "-", "1">>)>>
  ELSE IF tok = <<" ">> \o Ip(10, 0, 0, 1) \o <<"\t">> THEN <<V4(1)>>
  ELSE IF tok = ShortRange(Ip(255, 255, 255, 254), 255)
  THEN <<Ipv4Host(<<255, 255, 255, 254>>), Ipv4Host(<<255, 255, 255, 255>>)>>
  ELSE <<>>

RECURSIVE ExpectedAll(_)
ExpectedAll(toks) ==
  IF toks = <<>> THEN <<>> ELSE ExpectedOf(Head(toks)) \o ExpectedAll(Tail(toks))

\* The elements of a sequence, each at the place where it occurs first.
RECURSIVE FirstOccurrences(_)
FirstOccurrences(seq) ==
  IF seq = <<>> THEN <<>>
  ELSE LET init == SubSeq(seq, 1, Len(seq) - 1)
           x == seq[Len(seq)]
       IN  IF \E j \in DOMAIN init : init[j] = x
           THEN FirstOccurrences(init)
           ELSE Append(FirstOccurrences(init), x)

Reverse(seq) == [i \in DOMAIN seq |-> seq[Len(seq) + 1 - i]]

\* The number of the pieces of a sequence that are malformed.
MalformedCount(toks) == Cardinality({i \in DOMAIN toks : Malformed(toks[i])})

WellFormed(tok) == ~Malformed(tok)

\* The sequences with the same elements as seq, each as often.
PermutationsOf(seq) ==
  {[i \in DOMAIN seq |-> seq[f[i]]] : f \in Permutations(DOMAIN seq)}

\* C4: once openvas_hosts_new has returned no two hosts of the list are
\* equal; the list holds one host of every group of equal hosts the tokens
\* stand for, the one that occurs first, at its place; removed has grown by
\* one for each host that is not kept; a host is kept for every type the
\* tokens give an address in.
C4_NoDuplicates ==
  pc = "ready" =>
    LET expected == ExpectedAll(InputPieces)
    IN  /\ \A i, j \in DOMAIN hosts : i # j => hosts[i] # hosts[j]
        /\ \A i \in DOMAIN hosts : \E k \in DOMAIN expected : expected[k] = hosts[i]
        /\ \A k \in DOMAIN expected : \E i \in DOMAIN hosts : expected[k] = hosts[i]
        /\ ~shuffled => hosts = FirstOccurrences(expected)
        /\ removed = MalformedCount(InputPieces) + Len(expected) - Len(hosts)

\* A list with a duplicate removed: the range 10.0.0.1-2 and then 10.0.0.1.
C4_Witness ==
  /\ pc = "ready"
  /\ IsInput(Join(<<ShortRange(Ip(10, 0, 0, 1), 2), Ip(10, 0, 0, 1)>>, ","))
  /\ hosts = <<V4(1), V4(2)>>
  /\ removed = 1

\* C5: without a shuffle the calls of openvas_hosts_next return the hosts in
\* the order of the tokens in the string, the hosts of one range in the order
\* of their addresses, each host where it occurs first.
C5_ScanOrder ==
  pc = "ready" /\ ~shuffled =>
    LET expected == FirstOccurrences(ExpectedAll(InputPieces))
    IN  /\ Len(returned) <= Len(expected) + MaxExtraNext
        /\ \A i \in DOMAIN returned :
             returned[i] = IF i <= Len(expected) THEN Ptr(expected[i]) ELSE NULL

\* The hosts of two overlapping ranges have all been returned.
C5_Witness ==
  /\ pc = "ready"
  /\ ~shuffled
  /\ IsInput(Join(<<LongRange(Ip(10, 0, 0, 2), Ip(10, 0, 0, 3)), ShortRange(Ip(10, 0, 0, 1), 2)>>, ","))
  /\ returned = <<Ptr(V4(2)), Ptr(V4(3)), Ptr(V4(1))>>

\* C6: a malformed token adds one to removed and no host, and the tokens
\* after it are handled as if it were not there: while the pieces are gone
\* through, and at the return, the list is the one of the well-formed pieces
\* alone; openvas_hosts_new returns NULL for the NULL string only.
C6_MalformedTokenDropped ==
  /\ pc \in {"ready", "null"} => (pc = "null" <=> hosts_str = NULL)
  /\ pc = "scan" =>
       LET done == SubSeq(InputPieces, 1, host_element - 1)
       IN  /\ removed = MalformedCount(done)
           /\ hosts = Reverse(ExpectedAll(SelectSeq(done, WellFormed)))
  /\ pc = "ready" =>
       LET expected == ExpectedAll(SelectSeq(InputPieces, WellFormed))
       IN  /\ ~shuffled => hosts = FirstOccurrences(expected)
           /\ removed = MalformedCount(InputPieces) + Len(expected) - Len(hosts)

\* A malformed token before a well-formed one: one host, one removed.
C6_Witness ==
  /\ pc = "ready"
  /\ IsInput(Join(<<NotAHost, HostName>>, ","))
  /\ hosts = <<NameHost(HostName)>>
  /\ removed = 1

\* C7: the pieces are those between the commas and the newlines alike; the
\* pieces that are empty or white space change neither the list nor removed,
\* which are those of the other pieces alone; a string of separators and white
\* space gives no host and nothing removed.
C7_BlankTokensSkipped ==
  /\ pc \in {"scan", "expand"} => split = InputPieces
  /\ pc = "scan" =>
       LET done == SelectSeq(SubSeq(InputPieces, 1, host_element - 1), NotBlank)
       IN  /\ hosts = Reverse(ExpectedAll(done))
           /\ removed = MalformedCount(done)
  /\ pc = "ready" /\ (\A i \in DOMAIN InputPieces : Blank(InputPieces[i])) =>
       hosts = <<>> /\ removed = 0

\* A blank piece and an empty one with a newline between them.
C7_Witness ==
  /\ pc = "ready"
  /\ IsInput(<<" ", "\n">>)
  /\ hosts = <<>>
  /\ removed = 0

\* C8: the calls of openvas_hosts_next return the hosts of the list one after
\* the other from its start, then NULL for ever; a call changes neither the
\* list nor removed.
C8_NextWalksTheList ==
  /\ [](pc = "ready" =>
          /\ \A i \in DOMAIN returned :
               returned[i] = IF i <= Len(hosts) THEN Ptr(hosts[i]) ELSE NULL
          /\ current = IF Len(returned) < Len(hosts) THEN Len(returned) + 1 ELSE 0)
  /\ [](pc = "null" => \A i \in DOMAIN returned : returned[i] = NULL)
  /\ [][op' = "openvas_hosts_next" =>
          /\ hosts' = hosts
          /\ removed' = removed
          /\ Len(hosts') = Len(hosts)
          /\ Len(returned') = Len(returned) + 1]_vars

\* A list of three hosts walked to its end, and two calls more.
C8_Witness ==
  /\ pc = "ready"
  /\ Len(hosts) = 3
  /\ Len(returned) = 5
  /\ returned[3] = Ptr(hosts[3])
  /\ returned[4] = NULL
  /\ returned[5] = NULL

\* C9: openvas_hosts_shuffle leaves a permutation of the list, the same
\* removed and the cursor at the start of the new list, wherever the cursor
\* was; every permutation is the result of some random values; the calls of
\* openvas_hosts_next after it return every host once.
C9_ShufflePermutes ==
  /\ [](pc = "ready" /\ Len(hosts) <= MaxShuffle =>
          ShuffleRounds(hosts, <<>>, openvas_hosts_count(hosts)) = PermutationsOf(hosts))
  /\ [][op' = "openvas_hosts_shuffle" =>
          /\ hosts' \in PermutationsOf(hosts)
          /\ Len(hosts') = Len(hosts)
          /\ removed' = removed
          /\ current' = (IF hosts' = <<>> THEN 0 ELSE 1)
          /\ returned' = <<>>]_vars
  /\ [](pc = "ready" /\ shuffled /\ Len(returned) >= Len(hosts) =>
          LET expected == FirstOccurrences(ExpectedAll(InputPieces))
          IN  /\ Len(hosts) = Len(expected)
              /\ \A k \in DOMAIN expected :
                   Cardinality({i \in DOMAIN returned : returned[i] = Ptr(expected[k])}) = 1)

\* A list of three hosts shuffled into the reverse order with the cursor in
\* the middle of it, then walked to its end.
C9_Witness ==
  /\ pc = "ready"
  /\ shuffled
  /\ IsInput(Join(<<LongRange(Ip(10, 0, 0, 2), Ip(10, 0, 0, 3)), HostName>>, ","))
  /\ hosts = <<NameHost(HostName), V4(3), V4(2)>>
  /\ Len(returned) = 3

\* C10: openvas_host_resolve on a host of type IPv4 or IPv6 returns the
\* error value -1 and leaves the buffer as it was.
C10_ResolveWrongVariant ==
  pc = "resolved" /\ host # NULL /\ dst # NULL /\ family \in {AF_INET, AF_INET6}
      /\ Deref(host).type \in {HOST_TYPE_IPV4, HOST_TYPE_IPV6} =>
    ret = -1 /\ dst = Ptr(Unwritten)

\* The first address of the family fam in the list of getaddrinfo, as a list
\* of none or one address.
FirstOfFamily(list, fam) ==
  LET matching == SelectSeq(list, LAMBDA a : a.ai_family = fam)
  IN  IF matching = <<>> THEN <<>> ELSE <<Head(matching).addr>>

\* C11: on a host of type Name and with a buffer, openvas_host_resolve
\* returns 0 only when it
\* has written the first address of the family asked for to the buffer, and
\* -1 when getaddrinfo fails or gives no address of the family; and
\* openvas_host_addr6 returns -1 when getaddrinfo fails or gives no IPv4
\* address, and otherwise the IPv6 address mapped from the first one.
C11_ResolveFailure ==
  pc = "resolved" /\ host # NULL /\ dst # NULL
      /\ Deref(host).type = HOST_TYPE_NAME =>
    /\ op = "openvas_host_resolve" =>
         LET found == FirstOfFamily(info.list, family)
         IN  /\ ret = 0 => found # <<>> /\ dst = Ptr(found[1])
             /\ info.rc # 0 \/ found = <<>> => ret = -1
    /\ op = "openvas_host_addr6" =>
         LET found == FirstOfFamily(info.list, AF_INET)
         IN  /\ info.rc # 0 \/ found = <<>> => ret = -1
             /\ ret = 0 => found # <<>> /\ dst = Ptr(ipv4_mapped_ipv6(found[1]))

\* The suffix of the one token of the hosts string, after its "/".
SuffixOf(tok) == After(tok, strchr(tok, "/"))

\* One or two decimal digits with a value in [1,30].
PrefixWritten(x) ==
  /\ Len(x) \in {1, 2}
  /\ \A i \in DOMAIN x : x[i] \in Range(DigitChars)
  /\ DecValue(x) \in 1..30

\* C12: a token <ipv4>/<suffix> is of type CIDR block exactly when the suffix
\* is one or two decimal digits of a value in [1,30]; with any other suffix it
\* is of no type, no range is expanded for it, it adds no host and removed
\* counts it.
C12_CidrSuffix ==
  \A a \in SuffixAddrs, x \in Suffixes :
    IsInput(IpOf(a) \o <<"/">> \o x) /\ pc # "call" =>
      /\ determine_host_type(Deref(hosts_str)) = HOST_TYPE_CIDR_BLOCK <=> PrefixWritten(x)
      /\ ~PrefixWritten(x) =>
           /\ determine_host_type(Deref(hosts_str)) = HOST_TYPE_ERROR
           /\ pc # "expand"
           /\ hosts = <<>>
           /\ TokenDone => removed = 1

\* C13: openvas_hosts_remove_duplicates on a list that it has been applied
\* to already, shuffled since or not, removes no host, leaves the order of
\* the hosts and removed as they are and sets the cursor to the start of the
\* list, wherever it was.
C13_DedupIdempotent ==
  [][op' = "openvas_hosts_remove_duplicates" =>
       /\ hosts' = hosts
       /\ removed' = removed
       /\ current' = (IF hosts = <<>> THEN 0 ELSE 1)]_vars

\* The call on a list of two hosts left from four, two of them duplicates,
\* with the cursor moved past the end by two calls of openvas_hosts_next.
C13_Witness ==
  /\ op = "openvas_hosts_remove_duplicates"
  /\ IsInput(Join(<<ShortRange(Ip(10, 0, 0, 1), 2), Cidr(Ip(10, 0, 0, 0), 30)>>, ","))
  /\ hosts = <<V4(1), V4(2)>>
  /\ removed = 2
  /\ Len(returned) = 2
  /\ current = 1

\* C14: determine_host_type gives the type of the first check that matches,
\* in the order IPv4, IPv6, CIDR block, short range, long range, hostname,
\* and no type when none does: an IPv4 address, a short range and a long
\* range are of these types and give hosts of type IPv4, none of type Name,
\* although all their chars are chars of a hostname; <ipv4>-<n> with n above
\* 255 is of type Name and gives the one host of that name.
C14_FirstMatchWins ==
  \A c \in TypeCases :
    IsInput(c.tok) /\ pc # "call" =>
      /\ determine_host_type(c.tok) = c.type
      /\ c.type \in {HOST_TYPE_IPV4, HOST_TYPE_RANGE_SHORT, HOST_TYPE_RANGE_LONG} =>
           /\ is_hostname(c.tok)
           /\ \A i \in DOMAIN hosts : hosts[i].type = HOST_TYPE_IPV4
      /\ pc = "ready" =>
           /\ hosts \in PermutationsOf(c.hosts)
           /\ ~shuffled => hosts = c.hosts
           /\ removed = (IF c.type = HOST_TYPE_ERROR THEN 1 ELSE 0)

\* 10.0.0.254-256 has given the one host of that name.
C14_Witness ==
  /\ pc = "ready"
  /\ IsInput(ShortRange(Ip(10, 0, 0, 254), 256))
  /\ hosts = <<NameHost(ShortRange(Ip(10, 0, 0, 254), 256))>>
  /\ removed = 0

\* C15: every round of the loop that adds the addresses of a range or block
\* brings it nearer to its end, so that openvas_hosts_new returns: after a
\* round the current address is above last (the loop ends), or last - current
\* is less than it was; and the loop has added no more than last - first + 1
\* hosts.  This for every last address, 255.255.255.255 too.
C15_ExpansionTerminates ==
  [][pc = "expand" /\ hosts' # hosts =>
       /\ \/ U32Gt(ntohl(cur'), ntohl(last))
          \/ U32Gt(U32Sub(ntohl(last), ntohl(cur)), U32Sub(ntohl(last), ntohl(cur')))
       /\ U32Leq(U32(0, Len(hosts') - 1), U32Sub(ntohl(last), ntohl(first)))]_vars

\* C16: for a token <ipv4>/<suffix> of type CIDR block, the block value that
\* cidr_get_block reads is the value of the suffix, which is_cidr_block found
\* in [1,30]; the first and last addresses of the expansion are those of the
\* block of that prefix length, never of the length 0 or of another one.
C16_PrefixAgreement ==
  \A a \in SuffixAddrs, x \in Suffixes :
    LET tok == IpOf(a) \o <<"/">> \o x
    IN  IsInput(tok) /\ pc # "call"
            /\ determine_host_type(tok) = HOST_TYPE_CIDR_BLOCK =>
          /\ strtol(x).val \in 1..30
          /\ cidr_get_block(tok) # 0
          /\ cidr_get_block(tok) = strtol(x).val
          /\ pc = "expand" =>
               LET N == NetworkOf(a, strtol(x).val)
               IN  /\ first = BytesOf(U32AddInt(N, 1))
                   /\ last = BytesOf(U32AddInt(N, Usable(strtol(x).val)))

=============================================================================
